---- MODULE Spec2Model ----
(***************************************************************************)
(* The viewport state machine of sway-boomer (src/main.rs): the shared     *)
(* ImageState cells, the LAST_POS global, the GTK signal handlers that     *)
(* mutate them, and the draw handler that reads them.                      *)
(*                                                                         *)
(* scale is an f64 in the source.  It is modelled bit-exactly: an f64 in   *)
(* the range the program uses is an integer multiple of 2^-56, written     *)
(* here as a pair <<hi, lo>> standing for (hi * 2^28 + lo) * 2^-56, and    *)
(* +, - are followed by IEEE-754 round-to-nearest-even.  Pointer           *)
(* coordinates and offsets are whole pixels, on which f64 arithmetic is    *)
(* exact, so they are plain integers.                                      *)
(*                                                                         *)
(* main() itself, the startup that leads to the first window, is a         *)
(* specification of its own (SpecStartup) over the variable main.          *)
(***************************************************************************)
EXTENDS Integers, Sequences, FiniteSets, TLC

\* ------------------------------------------------------------------ bounds

\* Pointer coordinates delivered by the host range over 0..MaxPos on the x axis
\* and over 0..1 on the y axis (the handlers treat the two axes alike).
MaxPos == 1

\* Motion events that would carry offset.x beyond MaxOff, or offset.y beyond 1,
\* in absolute value are not generated (offset itself is unbounded in the code).
MaxOff == 1

\* The source image is MaxDim pixels on its longer side.
MaxDim == 4

\* The longest run of consecutive scroll events in one direction that the zoom
\* observer follows.
MaxRun == 40

\* The display query returns at most MaxOutputs outputs.
MaxOutputs == 2

\* ------------------------------------------------------- f64 arithmetic

Limb == 2^28

\* 1.0 and the f64 nearest to 0.1 (0x3FB999999999999A) and 3.0, in units of 2^-56.
F64_One == <<Limb, 0>>

SCALE_DELTA == <<26843545, 161061274>>

SCALE_MAX == <<3 * Limb, 0>>

\* The floor of the Down arm: the source uses SCALE_DELTA for it.
SCALE_MIN == SCALE_DELTA

F64Leq(a, b) == a[1] < b[1] \/ (a[1] = b[1] /\ a[2] <= b[2])

F64Min(a, b) == IF F64Leq(a, b) THEN a ELSE b

F64Max(a, b) == IF F64Leq(a, b) THEN b ELSE a

\* The spacing of f64 values around a value whose high limb is hi, in units of
\* 2^-56: 2^(e-52) for a value in [2^e, 2^(e+1)).  Below 2^-3 every multiple of
\* 2^-56 is an f64.
Ulp(hi) ==
    IF hi >= 4 * Limb THEN 64
    ELSE IF hi >= 2 * Limb THEN 32
    ELSE IF hi >= Limb THEN 16
    ELSE IF hi >= Limb \div 2 THEN 8
    ELSE IF hi >= Limb \div 4 THEN 4
    ELSE IF hi >= Limb \div 8 THEN 2
    ELSE 1

\* Round an exact value (lo < Limb) to the nearest f64, ties to even.
F64Round(v) ==
    LET u == Ulp(v[1])
        r == v[2] % u
        down == v[2] - r
        up == down + u
        roundUp == 2 * r > u \/ (2 * r = u /\ (down \div u) % 2 = 1)
        lo == IF roundUp THEN up ELSE down
    IN  IF lo = Limb THEN <<v[1] + 1, 0>> ELSE <<v[1], lo>>

\* a + b on f64.
F64Add(a, b) ==
    LET lo == a[2] + b[2]
    IN  F64Round(<<a[1] + b[1] + lo \div Limb, lo % Limb>>)

\* a - b on f64, for a >= b.
F64Sub(a, b) ==
    LET borrow == IF a[2] < b[2] THEN 1 ELSE 0
    IN  F64Round(<<a[1] - b[1] - borrow, a[2] - b[2] + borrow * Limb>>)


\* n * v for a small natural n, exactly (no rounding), formed on 14-bit limbs.
MulSmall(n, v) ==
    LET t0 == n * (v[2] % (2^14))
        t1 == n * (v[2] \div (2^14)) + t0 \div (2^14)
    IN  <<n * v[1] + t1 \div (2^14), (t1 % (2^14)) * (2^14) + (t0 % (2^14))>>

\* a + b exactly.
ExactAdd(a, b) ==
    LET lo == a[2] + b[2]
    IN  <<a[1] + b[1] + lo \div Limb, lo % Limb>>

\* a - b exactly, for a >= b.
ExactSub(a, b) ==
    LET borrow == IF a[2] < b[2] THEN 1 ELSE 0
    IN  <<a[1] - b[1] - borrow, a[2] - b[2] + borrow * Limb>>

\* |a - b| <= tol * 2^-56, for tol < 2^28.
Near(a, b, tol) ==
    /\ a[1] - b[1] \in {-1, 0, 1}
    /\ (a[1] - b[1]) * Limb + a[2] - b[2] \in -tol..tol

\* ------------------------------------------------- the scaled image size

Half == 2^14

\* The least k with m <= 2^k.
RECURSIVE CeilLog2(_)
CeilLog2(m) == IF m <= 1 THEN 0 ELSE 1 + CeilLog2((m + 1) \div 2)

\* (dim as f64 * s) as i32: the exact product dim * s is rounded to the nearest
\* f64 and then truncated.  With n the integer part of the exact product, the
\* rounded product is n + 1 exactly when the product lies within half an ulp
\* below n + 1 (n + 1 has an even significand, so a tie goes to it), and
\* otherwise its integer part is n.  The product is formed on 14-bit limbs.
ScaledDim(dim, s) ==
    LET t0 == dim * (s[2] % Half)
        t1 == dim * (s[2] \div Half) + t0 \div Half
        t2 == dim * (s[1] % Half) + t1 \div Half
        t3 == dim * (s[1] \div Half) + t2 \div Half
        n == t3 \div Half
        low == (t1 % Half) * Half + (t0 % Half)
        halfUlp == 2^(CeilLog2(n + 1) + 2)
        roundsUp == /\ t3 % Half = Half - 1
                    /\ t2 % Half = Half - 1
                    /\ Limb - low <= halfUlp
    IN  IF roundsUp THEN n + 1 ELSE n

\* -------------------------------------------------------------- constants

QUIT_KEY == 9

HIGHLIGHT_KEY == 50

\* A keycode bound to nothing.
OTHER_KEY == 38

\* Option::None.
None == <<>>

\* evt.keycode(): Option<u16>.
Keycodes == {QUIT_KEY, HIGHLIGHT_KEY, OTHER_KEY}

\* evt.direction().
ScrollDirections == {"Up", "Down", "Left", "Smooth"}

\* Pointer buttons; 1 is the primary button (BUTTON1_MASK).
Buttons == {1, 2}

\* evt.position(), in whole pixels.
Positions == (0..MaxPos) \X (0..1)

\* (width, height) of the captured screenshot: a square and a landscape one.
ImageSizes == {<<MaxDim, MaxDim>>, <<MaxDim, MaxDim - 1>>}

\* Output names the compositor reports.
OutputNames == {"eDP-1", "HDMI-1"}

\* struct Output { name, focused }
Output == [name : OutputNames, focused : BOOLEAN]

\* Vec<Output>: the lists of at most MaxOutputs outputs.
OutputLists == UNION {[1..n -> Output] : n \in 0..MaxOutputs}

\* What swaymsg can leave on its standard output: bytes that deserialize to a
\* Vec<Output>, or bytes that do not.
SwaymsgStdouts ==
    {[json |-> TRUE, outputs |-> l] : l \in OutputLists}
        \cup {[json |-> FALSE, outputs |-> <<>>]}

\* What grim can leave on its standard output: the bytes of an image of some
\* size, or bytes gdk-pixbuf cannot decode (none at all, for one).
GrimStdouts ==
    {[decodes |-> TRUE, size |-> sz] : sz \in ImageSizes}
        \cup {[decodes |-> FALSE, size |-> <<0, 0>>]}

\* std::process::ExitStatus of a helper: success or failure.
ExitStatuses == {0, 1}

\* What a step that is not a draw leaves on the cairo context: nothing.
NoFrame == [drawn |-> FALSE, background |-> FALSE, pixbuf2 |-> None, arc |-> None]

\* ------------------------------------------------------------------ state

VARIABLES
    scale,       \* state.scale
    offset,      \* state.offset
    mouse_pos,   \* state.mouse_pos
    highlight,   \* state.highlight
    LAST_POS,    \* static mut LAST_POS: None or the position of the last drag motion
    source,      \* (width, height) of source_pixbuf
    running,     \* application.run() has not been told to quit
    button1,     \* the primary button is held (BUTTON1_MASK of evt.state())
    hkey,        \* the highlight key is held
    queued,      \* a render requested by queue_render() (or the first show) is pending
    requested,   \* the handler that ran last called queue_render()
    frame,       \* what the draw handler painted, if the last step was a draw
    drag_target, \* observer: the offset a drag from its press position should leave
    zoom_run,    \* observer: the current run of scroll events in one direction
    zoom_pair,   \* observer: the last two scroll events that moved the scale
    main         \* fn main(): its position, its locals and what it has done

view == <<scale, offset, mouse_pos, highlight, LAST_POS, source, running,
          button1, hkey, queued, requested, frame>>

vars == <<view, drag_target, zoom_run, zoom_pair, main>>

NoRun == [dir |-> "None", from |-> F64_One, n |-> 0]

NoPair == [first |-> "None", s |-> F64_One, then |-> "None", mid |-> F64_One]

\* A helper process that has not been run.
NotRun == [ran |-> FALSE, ok |-> FALSE, status |-> 0]

\* main() as entered: nothing run, nothing bound, nothing printed or shown.
Entered ==
    [pc |-> "swaymsg", swaymsg |-> NotRun, stdout |-> <<>>, outputs |-> <<>>,
     output |-> <<>>, grim |-> NotRun, img |-> <<>>, printed |-> <<>>,
     shown |-> FALSE, error |-> "None"]

\* main() inside application.run(), the window shown: one startup that got
\* there, the only output focused and both helpers successful.
Started ==
    [Entered EXCEPT !.pc = "running",
                    !.swaymsg = [ran |-> TRUE, ok |-> TRUE, status |-> 0],
                    !.stdout = <<[json |-> TRUE,
                                  outputs |-> <<[name |-> "eDP-1", focused |-> TRUE]>>]>>,
                    !.outputs = <<<<[name |-> "eDP-1", focused |-> TRUE]>>>>,
                    !.output = <<"eDP-1">>,
                    !.grim = [ran |-> TRUE, ok |-> TRUE, status |-> 0],
                    !.img = <<[decodes |-> TRUE, size |-> <<MaxDim, MaxDim>>]>>,
                    !.printed = <<"eDP-1">>,
                    !.shown = TRUE]

\* activate(): the ImageState as constructed, the window shown.
Init ==
    /\ scale = F64_One
    /\ offset = <<0, 0>>
    /\ mouse_pos = <<0, 0>>
    /\ highlight = FALSE
    /\ LAST_POS = None
    /\ source \in ImageSizes
    /\ running = TRUE
    /\ button1 = FALSE
    /\ hkey = FALSE
    /\ queued = TRUE
    /\ requested = FALSE
    /\ frame = NoFrame
    /\ drag_target = None
    /\ zoom_run = NoRun
    /\ zoom_pair = NoPair
    /\ main = [Started EXCEPT !.img = <<[decodes |-> TRUE, size |-> source]>>]

\* Mutant: the handlers stay connected to a live event loop after app.quit().
Dispatching_AfterQuit == TRUE

\* application.run() dispatches events and draws until app.quit().
Dispatching == running

\* ---------------------------------------------------------------- renderer

\* Mutant: the new height is read from the scaled pixbuf's height while the old
\* one is still read from the source's width.
Painted_HalfFixed(alloc_ok) ==
    LET new_w == ScaledDim(source[1], scale)
        new_h == ScaledDim(source[2], scale)
        x2 == -(new_w - source[1])
        y2 == -(new_h - source[1])
    IN  IF new_w > 0 /\ new_h > 0 /\ alloc_ok
        THEN [drawn |-> TRUE,
              background |-> TRUE,
              pixbuf2 |-> <<x2 - 2 * offset[1], y2 - 2 * offset[2]>>,
              arc |-> IF highlight THEN mouse_pos ELSE None]
        ELSE [drawn |-> TRUE, background |-> FALSE, pixbuf2 |-> None, arc |-> None]

\* The draw handler's painting, given whether gdk-pixbuf could allocate the
\* scaled copy.  scale_simple returns None for a destination size that is not
\* positive, or when the allocation fails.  pixbuf2 is twice the position the
\* scaled pixbuf is painted at (the halving in the source is exact on f64).
Painted(alloc_ok) ==
    LET new_w == ScaledDim(source[1], scale)
        new_h == ScaledDim(source[2], scale)
        pb_width == source[1]
        pb_height == source[1]
        new_pb_width == new_w
        new_pb_height == new_w
        x2 == -(new_pb_width - pb_width)
        y2 == -(new_pb_height - pb_height)
    IN  IF new_w > 0 /\ new_h > 0 /\ alloc_ok
        THEN [drawn |-> TRUE,
              background |-> TRUE,
              pixbuf2 |-> <<x2 - 2 * offset[1], y2 - 2 * offset[2]>>,
              arc |-> IF highlight THEN mouse_pos ELSE None]
        ELSE [drawn |-> TRUE, background |-> FALSE, pixbuf2 |-> None, arc |-> None]

\* glarea.connect_draw: runs when a render is pending.
Draw ==
    /\ Dispatching
    /\ queued
    /\ \E alloc_ok \in BOOLEAN : frame' = Painted(alloc_ok)
    /\ queued' = FALSE
    /\ requested' = FALSE
    /\ UNCHANGED <<scale, offset, mouse_pos, highlight, LAST_POS, source, running,
                   button1, hkey>>

\* ------------------------------------------------------------ input router

\* state.highlight after the key press handler.
KeyPressHighlight(keycode) == IF keycode = HIGHLIGHT_KEY THEN TRUE ELSE highlight

\* Whether the key press handler calls queue_render().
KeyPressRequests(keycode) == keycode = HIGHLIGHT_KEY

\* window.connect_key_press_event
KeyPress(keycode) ==
    /\ Dispatching
    /\ running' = (keycode # QUIT_KEY)
    /\ highlight' = KeyPressHighlight(keycode)
    /\ requested' = KeyPressRequests(keycode)
    /\ queued' = (queued \/ requested')
    /\ hkey' = IF keycode = HIGHLIGHT_KEY THEN TRUE ELSE hkey
    /\ frame' = NoFrame
    /\ UNCHANGED <<scale, offset, mouse_pos, LAST_POS, source, button1>>

\* Mutant: the release handler flips the flag.
KeyReleaseHighlight_Toggle(keycode) ==
    IF keycode = HIGHLIGHT_KEY THEN ~highlight ELSE highlight

\* Mutant: the release handler requests the render but leaves the flag set.
KeyReleaseHighlight_Stuck(keycode) == highlight

\* state.highlight after the key release handler.
KeyReleaseHighlight(keycode) == IF keycode = HIGHLIGHT_KEY THEN FALSE ELSE highlight

\* Whether the key release handler calls queue_render().
KeyReleaseRequests(keycode) == keycode = HIGHLIGHT_KEY

\* window.connect_key_release_event
KeyRelease(keycode) ==
    /\ Dispatching
    /\ highlight' = KeyReleaseHighlight(keycode)
    /\ requested' = KeyReleaseRequests(keycode)
    /\ queued' = (queued \/ requested')
    /\ hkey' = IF keycode = HIGHLIGHT_KEY THEN FALSE ELSE hkey
    /\ frame' = NoFrame
    /\ UNCHANGED <<scale, offset, mouse_pos, LAST_POS, source, running, button1>>

\* Mutant: the Up arm without its .min(SCALE_MAX).
ScrollUp_Unclamped(s) == F64Add(s, SCALE_DELTA)

\* Mutant: the Up arm clamping the old scale instead of the sum.
ScrollUp_ClampFirst(s) == F64Add(F64Min(s, SCALE_MAX), SCALE_DELTA)

\* The Up arm of the scroll handler.
ScrollUp(s) == F64Min(F64Add(s, SCALE_DELTA), SCALE_MAX)

\* Mutant: the Down arm with a floor of 0.0 instead of SCALE_DELTA.
ScrollDown_FloorZero(s) ==
    IF F64Leq(SCALE_DELTA, s) THEN F64Sub(s, SCALE_DELTA) ELSE <<0, 0>>

\* Mutant: the Down arm with the + of the Up arm.
ScrollDown_Plus(s) == F64Max(F64Add(s, SCALE_DELTA), SCALE_DELTA)

\* The Down arm of the scroll handler.
ScrollDown(s) == F64Max(F64Sub(s, SCALE_DELTA), SCALE_DELTA)

\* Mutant: queue_render() after the match instead of inside its arms.
ScrollRequests_Always(direction) == TRUE

\* Whether the scroll handler calls queue_render().
ScrollRequests(direction) == direction \in {"Up", "Down"}

\* window.connect_scroll_event
Scroll(direction) ==
    /\ Dispatching
    /\ scale' = CASE direction = "Up" -> ScrollUp(scale)
                  [] direction = "Down" -> ScrollDown(scale)
                  [] OTHER -> scale
    /\ requested' = ScrollRequests(direction)
    /\ queued' = (queued \/ requested')
    /\ frame' = NoFrame
    /\ UNCHANGED <<offset, mouse_pos, highlight, LAST_POS, source, running,
                   button1, hkey>>

\* Mutant: a drag with no anchor measures its delta from state.mouse_pos.
Dragged_FromMousePos(pos) ==
    IF button1
    THEN IF LAST_POS # None
         THEN <<offset[1] + LAST_POS[1] - pos[1], offset[2] + LAST_POS[2] - pos[2]>>
         ELSE <<offset[1] + mouse_pos[1] - pos[1], offset[2] + mouse_pos[2] - pos[2]>>
    ELSE offset

\* state.offset after a motion to pos.
Dragged(pos) ==
    IF button1 /\ LAST_POS # None
    THEN <<offset[1] + LAST_POS[1] - pos[1], offset[2] + LAST_POS[2] - pos[2]>>
    ELSE offset

\* Mutant: LAST_POS = Some(pos) outside the BUTTON1_MASK test.
Anchored_Always(pos) == pos

\* LAST_POS after a motion to pos.
Anchored(pos) == IF button1 THEN pos ELSE LAST_POS

\* Mutant: the motion handler without its test of state.highlight.
MotionRequests_DragOnly(pos) == button1 /\ LAST_POS # None

\* Mutant: the motion handler calling queue_render() on every motion.
MotionRequests_Always(pos) == TRUE

\* Whether the motion handler calls queue_render().
MotionRequests(pos) == (button1 /\ LAST_POS # None) \/ highlight

\* window.connect_motion_notify_event
Motion(pos) ==
    /\ Dispatching
    /\ Dragged(pos)[1] \in -MaxOff..MaxOff
    /\ Dragged(pos)[2] \in -1..1
    /\ mouse_pos' = pos
    /\ offset' = Dragged(pos)
    /\ LAST_POS' = Anchored(pos)
    /\ requested' = MotionRequests(pos)
    /\ queued' = (queued \/ requested')
    /\ frame' = NoFrame
    /\ UNCHANGED <<scale, highlight, source, running, button1, hkey>>

\* A pointer button goes down.  No handler is connected to the press; the
\* primary button shows in the state of the motion events that follow.
ButtonPress(button) ==
    /\ Dispatching
    /\ button = 1 => ~button1
    /\ button1' = (button1 \/ button = 1)
    /\ requested' = FALSE
    /\ frame' = NoFrame
    /\ UNCHANGED <<scale, offset, mouse_pos, highlight, LAST_POS, source, running,
                   hkey, queued>>

\* Mutant: a release handler that leaves LAST_POS as it is.
Released_Stale(button) == LAST_POS

\* LAST_POS after the button release handler.
Released(button) == None

\* window.connect_button_release_event
ButtonRelease(button) ==
    /\ Dispatching
    /\ button = 1 => button1
    /\ LAST_POS' = Released(button)
    /\ button1' = (button1 /\ button # 1)
    /\ requested' = FALSE
    /\ frame' = NoFrame
    /\ UNCHANGED <<scale, offset, mouse_pos, highlight, source, running, hkey, queued>>

\* The observers stand by.
Unobserved == UNCHANGED <<drag_target, zoom_run, zoom_pair, main>>

Next ==
    \/ Draw /\ Unobserved
    \/ \E keycode \in Keycodes : KeyPress(keycode) /\ Unobserved
    \/ \E keycode \in Keycodes : KeyRelease(keycode) /\ Unobserved
    \/ \E direction \in ScrollDirections : Scroll(direction) /\ Unobserved
    \/ \E pos \in Positions : Motion(pos) /\ Unobserved
    \/ \E button \in Buttons : ButtonPress(button) /\ Unobserved
    \/ \E button \in Buttons : ButtonRelease(button) /\ Unobserved

Spec == Init /\ [][Next]_vars

\* ------------------------------------------------------- the drag observer

\* drag_target is set by the press of the primary button to the offset at the
\* press, follows the pointer while the button is held (offset at the press
\* minus the displacement of the pointer since the press), is kept by the
\* release, and is dropped by the step after it.  The scroll handler, which
\* touches neither offset nor LAST_POS, is left out of this specification.

DragIdle == drag_target' = IF button1 THEN drag_target ELSE None

DragMoved(pos) ==
    drag_target' = IF button1
                   THEN <<drag_target[1] - (pos[1] - mouse_pos[1]),
                          drag_target[2] - (pos[2] - mouse_pos[2])>>
                   ELSE None

DragPressed(button) ==
    drag_target' = IF button = 1 THEN offset
                   ELSE IF button1 THEN drag_target ELSE None

\* The other observers and main() stand by.
DragOnly == UNCHANGED <<zoom_run, zoom_pair, main>>

NextDrag ==
    \/ Draw /\ DragIdle /\ DragOnly
    \/ \E keycode \in Keycodes : KeyPress(keycode) /\ DragIdle /\ DragOnly
    \/ \E keycode \in Keycodes : KeyRelease(keycode) /\ DragIdle /\ DragOnly
    \/ \E pos \in Positions : Motion(pos) /\ DragMoved(pos) /\ DragOnly
    \/ \E button \in Buttons : ButtonPress(button) /\ DragPressed(button) /\ DragOnly
    \/ \E button \in Buttons : ButtonRelease(button) /\ DragIdle /\ DragOnly

SpecDrag == Init /\ [][NextDrag]_vars

\* ------------------------------------------------------- the zoom observer

\* zoom_run follows the scroll events: the direction of the current run of
\* scroll-up or scroll-down events, the scale the run started from and the
\* number of events in it.  A scroll in the other direction starts a new run;
\* other events leave the run as it is.  The motion handler, which touches
\* no scale, is left out of this specification.
ZoomScrolled(direction) ==
    /\ direction = zoom_run.dir => zoom_run.n < MaxRun
    /\ zoom_run' = IF direction \notin {"Up", "Down"} THEN zoom_run
                   ELSE IF direction = zoom_run.dir
                        THEN [zoom_run EXCEPT !.n = @ + 1]
                        ELSE [dir |-> direction, from |-> scale, n |-> 1]

\* The other observers and main() stand by.
ZoomOnly == UNCHANGED <<drag_target, zoom_pair, main>>

NextZoom ==
    \/ Draw /\ Unobserved
    \/ \E keycode \in Keycodes : KeyPress(keycode) /\ Unobserved
    \/ \E keycode \in Keycodes : KeyRelease(keycode) /\ Unobserved
    \/ \E direction \in ScrollDirections :
            Scroll(direction) /\ ZoomScrolled(direction) /\ ZoomOnly
    \/ \E button \in Buttons : ButtonPress(button) /\ Unobserved
    \/ \E button \in Buttons : ButtonRelease(button) /\ Unobserved

SpecZoom == Init /\ [][NextZoom]_vars

\* ------------------------------------------------------- the pair observer

\* zoom_pair follows the last two scroll-up or scroll-down events: the
\* direction of the earlier one and the scale it found (first, s), the
\* direction of the later one and the scale it found (then, mid).  Other
\* events leave it as it is.  The motion handler is left out of this
\* specification too.
PairScrolled(direction) ==
    zoom_pair' = IF direction \notin {"Up", "Down"} THEN zoom_pair
                 ELSE [first |-> zoom_pair.then, s |-> zoom_pair.mid,
                       then |-> direction, mid |-> scale]

\* The other observers and main() stand by.
PairOnly == UNCHANGED <<drag_target, zoom_run, main>>

NextPair ==
    \/ Draw /\ Unobserved
    \/ \E keycode \in Keycodes : KeyPress(keycode) /\ Unobserved
    \/ \E keycode \in Keycodes : KeyRelease(keycode) /\ Unobserved
    \/ \E direction \in ScrollDirections :
            Scroll(direction) /\ PairScrolled(direction) /\ PairOnly
    \/ \E button \in Buttons : ButtonPress(button) /\ Unobserved
    \/ \E button \in Buttons : ButtonRelease(button) /\ Unobserved

SpecPair == Init /\ [][NextPair]_vars

\* ---------------------------------------------------------------- startup

\* main() before application.run(): no ImageState exists, no window, no event
\* loop.  The cells hold the values activate() will construct them with.
InitStartup ==
    /\ scale = F64_One
    /\ offset = <<0, 0>>
    /\ mouse_pos = <<0, 0>>
    /\ highlight = FALSE
    /\ LAST_POS = None
    /\ source = None
    /\ running = FALSE
    /\ button1 = FALSE
    /\ hkey = FALSE
    /\ queued = FALSE
    /\ requested = FALSE
    /\ frame = NoFrame
    /\ drag_target = None
    /\ zoom_run = NoRun
    /\ zoom_pair = NoPair
    /\ main = Entered

\* Command::output(): Err when the helper cannot be spawned or its pipes
\* cannot be read; otherwise Ok with the exit status and the captured stdout,
\* whatever the status is.
Ran(ok, status) == [ran |-> TRUE, ok |-> ok, status |-> IF ok THEN status ELSE 0]

\* Command::new("swaymsg").args(["-t", "get_outputs", "-r"]).output()?.stdout
QueryOutputs ==
    /\ main.pc = "swaymsg"
    /\ \E ok \in BOOLEAN, status \in ExitStatuses, out \in SwaymsgStdouts :
            main' = IF ok
                    THEN [main EXCEPT !.pc = "from_slice",
                                      !.swaymsg = Ran(ok, status),
                                      !.stdout = <<out>>]
                    ELSE [main EXCEPT !.pc = "exit",
                                      !.swaymsg = Ran(ok, status),
                                      !.error = "Io"]
    /\ UNCHANGED <<view, drag_target, zoom_run, zoom_pair>>

\* serde_json::from_slice::<Vec<Output>>(..)?
ParseOutputs ==
    /\ main.pc = "from_slice"
    /\ main' = IF main.stdout[1].json
                THEN [main EXCEPT !.pc = "next", !.outputs = <<main.stdout[1].outputs>>]
                ELSE [main EXCEPT !.pc = "exit", !.error = "Json"]
    /\ UNCHANGED <<view, drag_target, zoom_run, zoom_pair>>

\* .into_iter().filter_map(|o| match o.focused { true => Some(o.name), .. })
FilterMap(outputs) ==
    LET focused == SelectSeq(outputs, LAMBDA o : o.focused)
    IN  [i \in 1..Len(focused) |-> focused[i].name]

\* Mutant: the iterator is drained and its last item taken.
Selected_Last(outputs) ==
    IF FilterMap(outputs) = <<>> THEN None
    ELSE <<FilterMap(outputs)[Len(FilterMap(outputs))]>>

\* .next(): the first item of the iterator, as an Option.
Selected(outputs) ==
    IF FilterMap(outputs) = <<>> THEN None ELSE <<Head(FilterMap(outputs))>>

\* .ok_or(Error::NoOutput)?
SelectOutput ==
    /\ main.pc = "next"
    /\ main' = IF Selected(main.outputs[1]) # None
                THEN [main EXCEPT !.pc = "grim", !.output = Selected(main.outputs[1])]
                ELSE [main EXCEPT !.pc = "exit", !.error = "NoOutput"]
    /\ UNCHANGED <<view, drag_target, zoom_run, zoom_pair>>

\* Command::new("grim").args(["-o", &output, "-"]).output()?.stdout
Capture ==
    /\ main.pc = "grim"
    /\ \E ok \in BOOLEAN, status \in ExitStatuses, out \in GrimStdouts :
            main' = IF ok
                    THEN [main EXCEPT !.pc = "println",
                                      !.grim = Ran(ok, status),
                                      !.img = <<out>>]
                    ELSE [main EXCEPT !.pc = "exit",
                                      !.grim = Ran(ok, status),
                                      !.error = "Io"]
    /\ UNCHANGED <<view, drag_target, zoom_run, zoom_pair>>

\* println!("Monitor: {}", output)
PrintMonitor ==
    /\ main.pc = "println"
    /\ main' = [main EXCEPT !.pc = "run", !.printed = main.output]
    /\ UNCHANGED <<view, drag_target, zoom_run, zoom_pair>>

\* application.run() calls activate(app, img): Pixbuf::from_read(..).unwrap()
\* panics on bytes that do not decode; otherwise the ImageState is built, the
\* handlers are connected and window.show_all() is reached.
Activate ==
    /\ main.pc = "run"
    /\ IF main.img[1].decodes
       THEN /\ main' = [main EXCEPT !.pc = "running", !.shown = TRUE]
            /\ source' = main.img[1].size
            /\ running' = TRUE
            /\ queued' = TRUE
       ELSE /\ main' = [main EXCEPT !.pc = "panic", !.error = "Panic"]
            /\ UNCHANGED <<source, running, queued>>
    /\ scale' = F64_One
    /\ offset' = <<0, 0>>
    /\ mouse_pos' = <<0, 0>>
    /\ highlight' = FALSE
    /\ UNCHANGED <<LAST_POS, button1, hkey, requested, frame>>
    /\ UNCHANGED <<drag_target, zoom_run, zoom_pair>>

NextStartup ==
    \/ QueryOutputs
    \/ ParseOutputs
    \/ SelectOutput
    \/ Capture
    \/ PrintMonitor
    \/ Activate

SpecStartup == InitStartup /\ [][NextStartup]_vars

\* ------------------------------------------------------------------ claims

\* C1: in every reachable state, whatever the interleaving of key, scroll,
\* motion and button events, scale lies in [SCALE_MIN, SCALE_MAX] = [0.1, 3.0].
C1_ScaleInRange == F64Leq(SCALE_MIN, scale) /\ F64Leq(scale, SCALE_MAX)

\* Scale sits on its floor in the middle of a drag, the spotlight on.
C1_Witness == scale = SCALE_MIN /\ LAST_POS # None /\ highlight /\ offset # <<0, 0>>

\* C2: in every reachable state the drag anchor LAST_POS is none if and only
\* if the primary button is not held.
C2_AnchorIffPrimaryHeld == (LAST_POS = None) <=> ~button1

\* C3: after the release that ends a drag, offset equals the offset at the
\* press minus the displacement of the pointer from the press position to
\* the last motion, and the drag anchor is none.
C3_DragRoundTrip ==
    (~button1 /\ drag_target # None) => (offset = drag_target /\ LAST_POS = None)

\* C4: a draw whose scaled copy could not be produced still paints the
\* background, skips only the image and the spotlight, and leaves the
\* session running.
C4_BackgroundOnFailure ==
    (frame.drawn /\ frame.pixbuf2 = None)
        => (frame.background /\ frame.arc = None /\ running)

\* C5: the draw handler paints the scaled image at
\* x = -(scaled_width - source_width)/2 - offset.x and
\* y = -(scaled_height - source_height)/2 - offset.y, heights in the y term
\* (both sides doubled here).
C5_BlitPosition ==
    frame.pixbuf2 # None =>
        frame.pixbuf2 =
            <<-(ScaledDim(source[1], scale) - source[1]) - 2 * offset[1],
              -(ScaledDim(source[2], scale) - source[2]) - 2 * offset[2]>>

\* C6: highlight is true exactly while the highlight key is held: a press of
\* the highlight key sets it, a release of the highlight key clears it, and
\* no other step changes it.
C6_HighlightIffHeld ==
    /\ [](highlight = hkey)
    /\ [][/\ KeyPress(HIGHLIGHT_KEY) => highlight'
          /\ KeyRelease(HIGHLIGHT_KEY) => ~highlight'
          /\ highlight' # highlight =>
                (KeyPress(HIGHLIGHT_KEY) \/ KeyRelease(HIGHLIGHT_KEY))]_vars

\* The spotlight is on with the key held, after a scroll and a drag.
C6_Witness ==
    highlight /\ hkey /\ scale # F64_One /\ offset # <<0, 0>> /\ ~requested

\* The state the frame depends on is the same before and after the step.
FrameStateKept ==
    /\ scale' = scale
    /\ offset' = offset
    /\ highlight' = highlight
    /\ highlight' => mouse_pos' = mouse_pos

\* C7, as stated: a step requests a render only if it changed scale, offset,
\* highlight, or the pointer position while the spotlight is on.
C7_NoRedundantRender == [][requested' => ~FrameStateKept]_vars

\* C7, amended: a step requests a render only if it is a press or release of
\* the highlight key, a scroll up or down, a motion with the spotlight on, or
\* a motion of a drag whose anchor is set; and a step that requests a render
\* without changing the frame's state is a scroll clamped at a bound, a
\* highlight key event that leaves the flag as it was, or a motion to the
\* position the pointer is already at.
C7_RenderOnlyOnViewEvents ==
    [][requested' =>
        /\ \/ KeyPress(HIGHLIGHT_KEY)
           \/ KeyRelease(HIGHLIGHT_KEY)
           \/ Scroll("Up")
           \/ Scroll("Down")
           \/ \E pos \in Positions :
                Motion(pos) /\ (highlight \/ (button1 /\ LAST_POS # None))
        /\ FrameStateKept =>
              \/ Scroll("Up") /\ scale = SCALE_MAX
              \/ Scroll("Down") /\ scale = SCALE_MIN
              \/ KeyPress(HIGHLIGHT_KEY) /\ highlight
              \/ KeyRelease(HIGHLIGHT_KEY) /\ ~highlight
              \/ Motion(mouse_pos)]_vars

\* A scroll-up at the ceiling has just requested a render.
C7_Witness == requested /\ scale = SCALE_MAX /\ ~highlight /\ LAST_POS = None

\* C8: the quit key press requests no render and changes nothing of the view,
\* and once it has been handled no step happens: no event mutates the state
\* and no frame is drawn.
C8_QuitIsTerminal ==
    [][/\ running
       /\ KeyPress(QUIT_KEY) =>
            (~running' /\ ~requested' /\ ~frame'.drawn /\
             UNCHANGED <<scale, offset, mouse_pos, highlight, LAST_POS, queued>>)]_vars

\* Quit was handled in the middle of a drag with a render still pending.
C8_Witness == ~running /\ queued /\ LAST_POS # None /\ highlight

\* The tolerance of the closed forms below, in units of 2^-56: 2^-48.
Rounding == 2^8

\* min(s + n * SCALE_DELTA, SCALE_MAX), evaluated in f64 as written.
UpClosedForm(s, n) ==
    F64Min(F64Add(s, F64Round(MulSmall(n, SCALE_DELTA))), SCALE_MAX)

\* min(s + n * SCALE_DELTA, SCALE_MAX), exactly.
UpExact(s, n) == F64Min(ExactAdd(s, MulSmall(n, SCALE_DELTA)), SCALE_MAX)

\* C9, as stated: after n consecutive scroll-ups from s, scale equals
\* min(s + n * SCALE_DELTA, SCALE_MAX).
C9_UpClosedForm ==
    zoom_run.dir = "Up" => scale = UpClosedForm(zoom_run.from, zoom_run.n)

\* C9, amended: after n consecutive scroll-ups from s, scale is within f64
\* rounding (2^-48) of min(s + n * SCALE_DELTA, SCALE_MAX); it never exceeds
\* 3.0, is exactly 3.0 after at most 30 scroll-ups (20 from the default 1.0,
\* so 40 from it give 3.0), and a further scroll-up leaves it at 3.0.
C9_UpSaturates ==
    zoom_run.dir = "Up" =>
        /\ F64Leq(scale, SCALE_MAX)
        /\ Near(scale, UpExact(zoom_run.from, zoom_run.n), Rounding)
        /\ zoom_run.n >= 30 => scale = SCALE_MAX
        /\ (zoom_run.from = F64_One /\ zoom_run.n >= 20) => scale = SCALE_MAX
        /\ scale = SCALE_MAX => ScrollUp(scale) = SCALE_MAX

\* Forty scroll-ups in a row from the default scale.
C9_Witness ==
    /\ zoom_run = [dir |-> "Up", from |-> F64_One, n |-> 40]
    /\ scale = SCALE_MAX

\* max(s - n * SCALE_DELTA, SCALE_MIN), evaluated in f64 as written.
DownClosedForm(s, n) ==
    LET m == F64Round(MulSmall(n, SCALE_DELTA))
    IN  IF F64Leq(m, s) THEN F64Max(F64Sub(s, m), SCALE_MIN) ELSE SCALE_MIN

\* max(s - n * SCALE_DELTA, SCALE_MIN), exactly.
DownExact(s, n) ==
    LET m == MulSmall(n, SCALE_DELTA)
    IN  IF F64Leq(m, s) THEN F64Max(ExactSub(s, m), SCALE_MIN) ELSE SCALE_MIN

\* C10, as stated: after n consecutive scroll-downs from s, scale equals
\* max(s - n * SCALE_DELTA, SCALE_MIN).
C10_DownClosedForm ==
    zoom_run.dir = "Down" => scale = DownClosedForm(zoom_run.from, zoom_run.n)

\* C10, amended: after n consecutive scroll-downs from s, scale is within f64
\* rounding (2^-48) of max(s - n * SCALE_DELTA, SCALE_MIN), with SCALE_MIN =
\* SCALE_DELTA; it never drops below 0.1, is never 0, is exactly 0.1 after at
\* most 30 scroll-downs, and a further scroll-down leaves it at 0.1.
C10_DownSaturates ==
    zoom_run.dir = "Down" =>
        /\ F64Leq(SCALE_MIN, scale)
        /\ scale # <<0, 0>>
        /\ Near(scale, DownExact(zoom_run.from, zoom_run.n), Rounding)
        /\ zoom_run.n >= 30 => scale = SCALE_MIN
        /\ scale = SCALE_MIN => ScrollDown(scale) = SCALE_MIN

\* Ten scroll-downs in a row from the default scale: the floor, one event
\* later than the exact count of nine.
C10_Witness ==
    /\ zoom_run = [dir |-> "Down", from |-> F64_One, n |-> 10]
    /\ scale = SCALE_MIN

\* C11: for every list of outputs the display query returns, the output
\* selected is the name of the first entry whose focused flag is true; if no
\* entry is focused, main() ends with Error::NoOutput, grim has not been run
\* and no window has been shown.
C11_FirstFocusedSelected ==
    (main.outputs # None /\ main.pc # "next") =>
        LET outputs == main.outputs[1]
            focused == {i \in 1..Len(outputs) : outputs[i].focused}
        IN  IF focused = {}
            THEN /\ main.pc = "exit"
                 /\ main.error = "NoOutput"
                 /\ main.output = None
                 /\ ~main.grim.ran
                 /\ ~main.shown
            ELSE /\ \E i \in focused :
                        /\ \A j \in focused : i <= j
                        /\ main.output = <<outputs[i].name>>
                 /\ main.error # "NoOutput"

\* The list [eDP-1 unfocused, HDMI-1 focused] has led to HDMI-1 being selected,
\* captured, printed and shown.
C11_Witness ==
    /\ main.outputs = <<<<[name |-> "eDP-1", focused |-> FALSE],
                          [name |-> "HDMI-1", focused |-> TRUE]>>>>
    /\ main.output = <<"HDMI-1">>
    /\ main.shown

\* Command::output() returned Ok with a failure status, or returned Err.
HelperFailed(run) == run.ran /\ (~run.ok \/ run.status # 0)

\* C12: after a helper failed (could not be run, or exited non-zero), after
\* swaymsg printed malformed data, after a list with no focused output, and
\* after a capture that does not decode, the window is never shown and main()
\* does not get to run the session.
C12_StartupFailuresFatal ==
    LET io == HelperFailed(main.swaymsg) \/ HelperFailed(main.grim)
        malformed == main.stdout # None /\ ~main.stdout[1].json
        unfocused == /\ main.outputs # None
                     /\ \A i \in 1..Len(main.outputs[1]) : ~main.outputs[1][i].focused
        undecodable == main.img # None /\ ~main.img[1].decodes
    IN  (io \/ malformed \/ unfocused \/ undecodable) =>
            ~main.shown /\ main.pc # "running"

\* C13: in any reachable state where highlight is already false, the release
\* of the highlight key leaves scale, offset, mouse_pos, highlight and LAST_POS
\* unchanged.
C13_ReleaseIdempotent ==
    [][(~highlight /\ KeyRelease(HIGHLIGHT_KEY)) =>
            UNCHANGED <<scale, offset, mouse_pos, highlight, LAST_POS>>]_vars

\* The highlight key has been released with the spotlight off, in the middle
\* of a drag of a zoomed image: the render is requested, nothing else moved.
C13_Witness ==
    /\ requested /\ ~highlight /\ ~hkey
    /\ LAST_POS # None /\ offset # <<0, 0>> /\ scale = SCALE_MAX

\* C14: for every source image size, a frame drawn at scale = 1.0 and
\* offset = (0, 0) has the image painted at position (0, 0).
C14_Centering ==
    (frame.pixbuf2 # None /\ scale = F64_One /\ offset = <<0, 0>>) =>
        frame.pixbuf2 = <<0, 0>>

\* A source that is not square has been painted at (0, 0), at scale 1.0 and
\* offset (0, 0), in the middle of a drag with the spotlight on.
C14_Witness ==
    /\ frame.pixbuf2 = <<0, 0>>
    /\ source[1] # source[2]
    /\ scale = F64_One /\ offset = <<0, 0>>
    /\ LAST_POS # None /\ frame.arc # None

\* C15: every motion to p sets mouse_pos to p; with the primary button held
\* and LAST_POS = a, offset becomes offset + (a - p) and LAST_POS becomes p;
\* with the primary button held and LAST_POS none, offset is unchanged and
\* LAST_POS becomes p; with the primary button not held, offset and LAST_POS
\* are unchanged.
C15_MotionStep ==
    [][\A p \in Positions : Motion(p) =>
            /\ mouse_pos' = p
            /\ (button1 /\ LAST_POS # None) =>
                    /\ offset' = <<offset[1] + (LAST_POS[1] - p[1]),
                                   offset[2] + (LAST_POS[2] - p[2])>>
                    /\ LAST_POS' = p
            /\ (button1 /\ LAST_POS = None) =>
                    /\ offset' = offset
                    /\ LAST_POS' = p
            /\ ~button1 =>
                    /\ offset' = offset
                    /\ LAST_POS' = LAST_POS]_vars

\* A drag has carried offset away from (0, 0) on both axes, the anchor on
\* the pointer.
C15_Witness ==
    /\ button1 /\ LAST_POS = mouse_pos
    /\ offset[1] # 0 /\ offset[2] # 0
    /\ requested

\* C16: every step that changes scale, offset or highlight, and every motion
\* handled while highlight is true, requests a render in the same step, so a
\* render is pending after it.
C16_ChangeRequestsRender ==
    [][(\/ scale' # scale
        \/ offset' # offset
        \/ highlight' # highlight
        \/ highlight /\ \E p \in Positions : Motion(p)) =>
            (requested' /\ queued')]_vars

\* A motion with the spotlight on and no button held has requested a render:
\* neither scale nor offset ever moved.
C16_Witness ==
    /\ requested /\ queued /\ highlight
    /\ mouse_pos # <<0, 0>> /\ ~button1
    /\ scale = F64_One /\ offset = <<0, 0>>

\* C17: a scroll event whose direction is neither up nor down leaves scale,
\* offset, mouse_pos, highlight and LAST_POS unchanged and requests no render.
C17_OtherScrollNoOp ==
    [][\A direction \in ScrollDirections \ {"Up", "Down"} :
            Scroll(direction) =>
                /\ UNCHANGED <<scale, offset, mouse_pos, highlight, LAST_POS>>
                /\ ~requested'
                /\ queued' = queued]_vars

\* Nothing is requested or pending in the middle of a drag of a zoomed image
\* with the spotlight on: the state a horizontal scroll leaves as it found it.
C17_Witness ==
    /\ ~requested /\ ~queued /\ frame = NoFrame
    /\ scale = SCALE_MIN /\ highlight /\ LAST_POS # None /\ offset # <<0, 0>>

\* C18: the only step that changes offset is a motion handled while the
\* primary button is held and LAST_POS is set.
C18_OffsetOnlyByDrag ==
    [][offset' # offset =>
            /\ button1 /\ LAST_POS # None
            /\ \E p \in Positions : Motion(p)
            /\ offset' = <<offset[1] + LAST_POS[1] - mouse_pos'[1],
                           offset[2] + LAST_POS[2] - mouse_pos'[2]>>]_vars

\* Offset is away from (0, 0) after the button went up, keys were used and
\* the scale was changed.
C18_Witness ==
    /\ offset = <<MaxOff, -1>> /\ ~button1 /\ LAST_POS = None
    /\ scale # F64_One /\ highlight

\* C19: whenever LAST_POS is set, the primary button is held and LAST_POS is
\* the current mouse_pos; so LAST_POS is none whenever the primary button is
\* up, and the first motion of a new drag finds no anchor of an earlier one.
C19_NoStaleAnchor == LAST_POS # None => (button1 /\ LAST_POS = mouse_pos)

\* The anchor has been set anew, on the pointer at (0, 1), after offset moved
\* on the x axis only: the motion that set it applied no delta.
C19_Witness ==
    /\ LAST_POS # None /\ LAST_POS = mouse_pos /\ button1
    /\ offset = <<-MaxOff, 0>> /\ mouse_pos = <<0, 1>>

\* One rounding step of an f64 in [1, 2): 2^-52.
RoundingStep == 2^4

\* The last two scroll events were a scroll-up and then a scroll-down.
UpThenDown == zoom_pair.first = "Up" /\ zoom_pair.then = "Down"

\* The last two scroll events were a scroll-down and then a scroll-up.
DownThenUp == zoom_pair.first = "Down" /\ zoom_pair.then = "Up"

\* The first scroll of the pair was clamped: it did not leave s +/- SCALE_DELTA.
FirstClamped ==
    zoom_pair.mid # (IF zoom_pair.first = "Up"
                     THEN F64Add(zoom_pair.s, SCALE_DELTA)
                     ELSE F64Sub(zoom_pair.s, SCALE_DELTA))

\* C20 as stated: from any reachable scale s <= SCALE_MAX - SCALE_DELTA a
\* scroll-up followed by a scroll-down restores s, from any reachable scale
\* s >= SCALE_MIN + SCALE_DELTA a scroll-down followed by a scroll-up restores
\* s, and a pair that does not restore s had its first scroll clamped.
C20_RoundTripExact ==
    /\ (UpThenDown /\ F64Leq(zoom_pair.s, F64Sub(SCALE_MAX, SCALE_DELTA))) =>
            scale = zoom_pair.s
    /\ (DownThenUp /\ F64Leq(F64Add(SCALE_MIN, SCALE_DELTA), zoom_pair.s)) =>
            scale = zoom_pair.s
    /\ ((UpThenDown \/ DownThenUp) /\ scale # zoom_pair.s) => FirstClamped

\* C20, amended: a scroll-up followed by a scroll-down from s <= SCALE_MAX -
\* SCALE_DELTA restores s to within one rounding step (2^-52); a scroll-down
\* followed by a scroll-up from s >= SCALE_MIN + SCALE_DELTA restores s
\* exactly; a pair that leaves scale further than a rounding step from s had
\* its first scroll clamped.
C20_RoundTripRounded ==
    /\ (UpThenDown /\ F64Leq(zoom_pair.s, F64Sub(SCALE_MAX, SCALE_DELTA))) =>
            Near(scale, zoom_pair.s, RoundingStep)
    /\ (DownThenUp /\ F64Leq(F64Add(SCALE_MIN, SCALE_DELTA), zoom_pair.s)) =>
            scale = zoom_pair.s
    /\ ((UpThenDown \/ DownThenUp) /\ ~Near(scale, zoom_pair.s, RoundingStep)) =>
            FirstClamped

\* A scroll-up and a scroll-down from 0.2, neither clamped, have left scale on
\* the next f64 above 0.2.
C20_Witness ==
    /\ UpThenDown
    /\ zoom_pair.s = F64Add(SCALE_DELTA, SCALE_DELTA)
    /\ ~FirstClamped
    /\ scale # zoom_pair.s
    /\ Near(scale, zoom_pair.s, RoundingStep)

====
